---- MODULE Spec2Model ----
(***************************************************************************)
(* Model of prometheus-sensor-exporter: the sensor polling contract        *)
(* (SHT3xSensor.Poll, BME280Sensor.Poll), the per-sensor collector         *)
(* (sensorCollector.Describe / Collect), the humidity conversion and the   *)
(* start-up sequence of main.                                              *)
(*                                                                         *)
(* Numbers: every float (float32 transport values, float64 offsets and     *)
(* metric values) is a fixed-point integer counting thousandths, so        *)
(* 20.004 degrees Celsius is 20004.  sensor_up alone is the plain 0 / 1.   *)
(* A Go pointer to a float is a sequence: <<>> is nil, <<v>> points to v.  *)
(***************************************************************************)
EXTENDS Integers, FiniteSets, Sequences, TLC

\* ------------------------------------------------------------------ bounds
\* Number of Collect calls the model follows; the process itself serves forever.
MaxScrapes == 3

\* The goroutines that may run Collect at the same time (the registry starts
\* one per collector and per scrape, and scrapes may overlap).
Goroutines == {"g1", "g2", "g3"}

\* The sensors given on the command line, one of each family (README usage).
Collectors == {"SHT35", "BME280"}

\* Values a transport read may return (thousandths, before rounding).
RawTemperatures == {20004, -10005}
RawHumidities == {40005, 80000}

\* The command lines considered: temp_offset and humidity_offset of each
\* sensor.  Both offsets unset, or one sensor with offsets of two
\* decimals (-0.5, 2.5) and the other with offsets of three (1.234, -1.006).
Offsets(t, h) == [TempOffset |-> t, HumidityOffset |-> h]
CommandLines ==
    {[c \in Collectors |-> Offsets(0, 0)],
     [c \in Collectors |-> IF c = "SHT35" THEN Offsets(-500, 2500) ELSE Offsets(1234, -1006)],
     [c \in Collectors |-> IF c = "SHT35" THEN Offsets(1234, -1006) ELSE Offsets(-500, 2500)]}

\* ------------------------------------------------------------ pointers
Nil == <<>>
Ptr(v) == <<v>>
Deref(p) == p[1]

\* var readings Readings: both pointers nil.
ZeroReadings == [temperature |-> Nil, humidity |-> Nil]

Abs(x) == IF x < 0 THEN -x ELSE x

\* 10^n for the small n the model needs.
RECURSIVE Pow10(_)
Pow10(n) == IF n = 0 THEN 1 ELSE 10 * Pow10(n - 1)

\* math.Round: nearest integer, halves away from zero; value counts units of
\* 1/unit, the result counts whole units.
MathRound(value, unit) ==
    IF value >= 0 THEN (2 * value + unit) \div (2 * unit)
    ELSE -((2 * (-value) + unit) \div (2 * unit))

\* round64(value, precision) on thousandths, precision in 0..3.
round64(value, precision) ==
    LET unit == Pow10(3 - precision)
    IN  MathRound(value, unit) * unit

\* ------------------------------------------------------- humidity.go
\* exp(x) for |x| <= 1, x and the result scaled by 10^4: the Taylor series,
\* summed until the terms vanish at this precision.
RECURSIVE ExpSeries(_, _, _, _)
ExpSeries(x, n, term, acc) ==
    IF term = 0 \/ n > 16 THEN acc
    ELSE ExpSeries(x, n + 1, (term * x) \div (10000 * n), acc + term)

\* a * b of two numbers scaled by 10^4, kept inside 32 bits.
FixMul(a, b) ==
    IF Abs(a) < 46340 /\ Abs(b) < 46340 THEN (a * b) \div 10000
    ELSE IF Abs(b) >= Abs(a) THEN (a * (b \div 100)) \div 100
    ELSE ((a \div 100) * b) \div 100

\* math.Exp, x and the result scaled by 10^4: exp(x) = exp(x/2)^2 down to |x| <= 1.
RECURSIVE MathExp(_)
MathExp(x) ==
    IF Abs(x) <= 10000 THEN ExpSeries(x, 1, 10000, 0)
    ELSE LET h == MathExp(x \div 2) IN FixMul(h, h)

\* R_water = R / M_water = 8.31446261815324 / 0.01801528 = 461.52 J/(kg K),
\* here in hundredths.
R_water == 46152

\* saturationVaporPressureWater: Arden Buck equation; the argument is in
\* thousandths of a degree Celsius, the result in thousandths of a hPa.
saturationVaporPressureWater(tempCelsius) ==
    LET a == 186780 - ((tempCelsius * 100) \div 2345)            \* 18.678 - T/234.5, 10^-4
        b == (tempCelsius * 10000) \div (257140 + tempCelsius)   \* T/(257.14+T),    10^-4
    IN  FixMul(6112, MathExp((a * b) \div 10000))

\* Relative2AbsoluteHumidity(rh, tempCelsius): rh in thousandths of a percent,
\* tempCelsius in thousandths of a degree, result in thousandths of g/m^3.
Relative2AbsoluteHumidity(rh, tempCelsius) ==
    LET tempK == tempCelsius + 273150
        d == (R_water * (tempK \div 10)) \div 10000              \* R_water * T, units
        p == saturationVaporPressureWater(tempCelsius)
        g == IF p < 200000 THEN (p * 10000) \div d               \* 1000 p / (R_water T), 10^-4
             ELSE (p * 100) \div (d \div 100)
    IN  FixMul(rh, g)

\* ------------------------------------------------------------- text
\* A Go string is a sequence of atoms.  The characters of a numeric literal
\* are atoms of their own ("0", "x", "4", "5", "-", "."), and so are "," and
\* "="; a model name, a key or any other word is one atom ("SHT35", "bus").
EmptyString == <<>>

RECURSIVE Concat(_)
Concat(parts) == IF parts = <<>> THEN <<>> ELSE Head(parts) \o Concat(Tail(parts))

\* strings.Contains(s, sub)
Contains(s, sub) ==
    \E i \in 0 .. (Len(s) - Len(sub)) : SubSeq(s, i + 1, i + Len(sub)) = sub

\* Index of the first atom sep in s, 0 if there is none.
IndexOf(s, sep) ==
    IF \E i \in 1 .. Len(s) : s[i] = sep
    THEN CHOOSE i \in 1 .. Len(s) : s[i] = sep /\ \A j \in 1 .. (i - 1) : s[j] # sep
    ELSE 0

\* strings.Split(s, sep): every piece between separators, empty pieces included.
RECURSIVE Split(_, _)
Split(s, sep) ==
    LET i == IndexOf(s, sep)
    IN  IF i = 0 THEN <<s>>
        ELSE <<SubSeq(s, 1, i - 1)>> \o Split(SubSeq(s, i + 1, Len(s)), sep)

\* strings.SplitN(s, sep, 2): cut at the first separator only.
SplitN2(s, sep) ==
    LET i == IndexOf(s, sep)
    IN  IF i = 0 THEN <<s>>
        ELSE <<SubSeq(s, 1, i - 1), SubSeq(s, i + 1, Len(s))>>

\* ---------------------------------------------------------- strconv
Alphabet ==
    <<"0", "1", "2", "3", "4", "5", "6", "7", "8", "9",
      "a", "b", "c", "d", "e", "f", "g", "h", "i", "j", "k", "l", "m",
      "n", "o", "p", "q", "r", "s", "t", "u", "v", "w", "x", "y", "z">>
UpperCase ==
    <<"A", "B", "C", "D", "E", "F", "G", "H", "I", "J", "K", "L", "M",
      "N", "O", "P", "Q", "R", "S", "T", "U", "V", "W", "X", "Y", "Z">>

\* strconv's lower(c)
Lower(c) ==
    IF \E i \in 1 .. Len(UpperCase) : UpperCase[i] = c
    THEN Alphabet[10 + CHOOSE i \in 1 .. Len(UpperCase) : UpperCase[i] = c]
    ELSE c

IsDecimalDigit(c) == \E i \in 1 .. 10 : Alphabet[i] = c

\* The digit value ParseUint gives a byte: 0..9, a..z as 10..35; -1 for any
\* other atom (the default case, a syntax error).
DigitValue(c) ==
    IF \E i \in 1 .. Len(Alphabet) : Alphabet[i] = Lower(c)
    THEN (CHOOSE i \in 1 .. Len(Alphabet) : Alphabet[i] = Lower(c)) - 1
    ELSE -1

\* The base prefix ParseUint looks for when base = 0: <<base, digits>>.
BasePrefix(s) ==
    IF s # <<>> /\ s[1] = "0"
    THEN IF Len(s) >= 3 /\ Lower(s[2]) = "b" THEN <<2, SubSeq(s, 3, Len(s))>>
         ELSE IF Len(s) >= 3 /\ Lower(s[2]) = "o" THEN <<8, SubSeq(s, 3, Len(s))>>
         ELSE IF Len(s) >= 3 /\ Lower(s[2]) = "x" THEN <<16, SubSeq(s, 3, Len(s))>>
         ELSE <<8, Tail(s)>>
    ELSE <<10, s>>

\* strconv.underscoreOK, the loop: i is '^', '0', '_' or '!'.
RECURSIVE UnderscoreScan(_, _, _)
UnderscoreScan(s, i, hex) ==
    IF s = <<>> THEN i # "_"
    ELSE IF IsDecimalDigit(s[1]) \/ (hex /\ DigitValue(s[1]) \in 10 .. 15)
         THEN UnderscoreScan(Tail(s), "0", hex)
    ELSE IF s[1] = "_"
         THEN i = "0" /\ UnderscoreScan(Tail(s), "_", hex)
    ELSE i # "_" /\ UnderscoreScan(Tail(s), "!", hex)

underscoreOK(s0) ==
    LET s == IF s0 # <<>> /\ s0[1] \in {"-", "+"} THEN Tail(s0) ELSE s0
        prefixed == Len(s) >= 2 /\ s[1] = "0" /\ Lower(s[2]) \in {"b", "o", "x"}
    IN  IF prefixed
        THEN UnderscoreScan(SubSeq(s, 3, Len(s)), "0", Lower(s[2]) = "x")
        ELSE UnderscoreScan(s, "^", FALSE)

\* ParseUint's loop over the digits.  The number is kept as its negation n <= 0
\* so that the largest magnitude needed, 2^31, fits; lowest is the negated
\* maximum.  Result: "ok" with the value, or the kind of error.
RECURSIVE ScanDigits(_, _, _, _, _)
ScanDigits(s, base, base0, lowest, n) ==
    IF s = <<>> THEN [kind |-> "ok", n |-> n]
    ELSE IF s[1] = "_" /\ base0 THEN ScanDigits(Tail(s), base, base0, lowest, n)
    ELSE LET d == DigitValue(s[1])
         IN  IF d < 0 \/ d >= base THEN [kind |-> "invalid syntax", n |-> 0]
             ELSE IF n < (lowest + d + base - 1) \div base
                  THEN [kind |-> "value out of range", n |-> lowest]
             ELSE ScanDigits(Tail(s), base, base0, lowest, n * base - d)

\* The unsigned magnitude of s in base 0, negated, not below lowest.
ParseMagnitude(s, lowest) ==
    IF s = <<>> THEN [kind |-> "invalid syntax", n |-> 0]
    ELSE LET p == BasePrefix(s)
             r == ScanDigits(p[2], p[1], TRUE, lowest, 0)
         IN  IF r.kind = "ok" /\ (\E i \in 1 .. Len(s) : s[i] = "_") /\ ~underscoreOK(s)
             THEN [kind |-> "invalid syntax", n |-> 0]
             ELSE r

\* The text of a *strconv.NumError.
NumError(fn, s, kind) == <<"strconv.", fn, ": parsing ", "\"">> \o s \o <<"\"", ": ", kind>>

\* strconv.ParseUint(s, 0, 8): the value or the error.
ParseUint8(s) ==
    LET r == ParseMagnitude(s, -255)
    IN  IF r.kind = "ok" THEN [ok |-> TRUE, value |-> -r.n, err |-> EmptyString]
        ELSE [ok |-> FALSE, value |-> 0, err |-> NumError("ParseUint", s, r.kind)]

\* strconv.ParseInt(s, 0, 32): a sign, then the magnitude; the magnitude may
\* reach 2^31 only under a minus sign.
ParseInt32(s) ==
    LET neg == s # <<>> /\ s[1] = "-"
        digits == IF s # <<>> /\ s[1] \in {"-", "+"} THEN Tail(s) ELSE s
        r == ParseMagnitude(digits, IF neg THEN -2147483647 - 1 ELSE -2147483647)
    IN  IF r.kind = "ok"
        THEN [ok |-> TRUE, value |-> IF neg THEN r.n ELSE -r.n, err |-> EmptyString]
        ELSE [ok |-> FALSE, value |-> 0, err |-> NumError("ParseInt", s, r.kind)]

\* Decimal digits of a sequence as a number, most significant first.
RECURSIVE DecimalValue(_, _)
DecimalValue(s, acc) ==
    IF s = <<>> THEN acc ELSE DecimalValue(Tail(s), 10 * acc + DigitValue(s[1]))

AllDecimal(s) == \A i \in 1 .. Len(s) : IsDecimalDigit(s[i])

\* strconv.ParseFloat(s, 64) for the decimal literals [+-]digits[.digits] with
\* at most three fraction digits; the value counts thousandths.  (Exponents,
\* hexadecimal floats, infinities and NaN are outside the literals considered.)
ParseFloat64(s) ==
    LET neg == s # <<>> /\ s[1] = "-"
        body == IF s # <<>> /\ s[1] \in {"-", "+"} THEN Tail(s) ELSE s
        parts == SplitN2(body, ".")
        int == parts[1]
        frac == IF Len(parts) = 2 THEN parts[2] ELSE <<>>
        wellFormed == /\ AllDecimal(int) /\ AllDecimal(frac)
                      /\ Len(int) + Len(frac) > 0
                      /\ Len(int) <= 6 /\ Len(frac) <= 3
        padded == frac \o SubSeq(<<"0", "0", "0">>, 1, 3 - Len(frac))
        magnitude == 1000 * DecimalValue(int, 0) + DecimalValue(padded, 0)
    IN  IF wellFormed
        THEN [ok |-> TRUE, value |-> IF neg THEN -magnitude ELSE magnitude,
              err |-> EmptyString]
        ELSE [ok |-> FALSE, value |-> 0, err |-> NumError("ParseFloat", s, "invalid syntax")]

\* ------------------------------------------------------------- fmt
\* The digits of n >= 0 in the given base, lowercase, no leading zeros.
RECURSIVE FormatDigits(_, _)
FormatDigits(n, base) ==
    IF n < base THEN <<Alphabet[n + 1]>>
    ELSE FormatDigits(n \div base, base) \o <<Alphabet[(n % base) + 1]>>

\* fmt verb %x of a uint8
FormatHex(n) == FormatDigits(n, 16)

\* fmt verb %d of an int
FormatDecimal(n) ==
    IF n >= 0 THEN FormatDigits(n, 10)
    ELSE IF n = -2147483647 - 1
         THEN <<"-">> \o FormatDigits(214748364, 10) \o <<"8">>
    ELSE <<"-">> \o FormatDigits(-n, 10)

\* The fraction digits of 0 < f < 1000 thousandths without trailing zeros.
FractionDigits(f) ==
    LET d == <<Alphabet[(f \div 100) + 1], Alphabet[((f \div 10) % 10) + 1],
               Alphabet[(f % 10) + 1]>>
    IN  IF f % 100 = 0 THEN SubSeq(d, 1, 1)
        ELSE IF f % 10 = 0 THEN SubSeq(d, 1, 2) ELSE d

\* fmt verb %g of a float64 (thousandths): the shortest decimal that reads back.
FormatFloat(v) ==
    LET m == Abs(v)
    IN  (IF v < 0 THEN <<"-">> ELSE <<>>)
        \o FormatDigits(m \div 1000, 10)
        \o (IF m % 1000 = 0 THEN <<>> ELSE <<".">> \o FractionDigits(m % 1000))

\* ----------------------------------------------------- SensorFlags
\* var flags SensorFlags: nil pointers, empty strings, zero offsets.
ZeroFlags ==
    [Model |-> EmptyString, Address |-> Nil, Bus |-> Nil,
     Repeatability |-> EmptyString, TempOffset |-> 0, HumidityOffset |-> 0]

\* SensorFlags.String
String(s) ==
    Concat(<<
        s.Model,
        IF s.Address # Nil
            THEN <<",", "address", "=", "0", "x">> \o FormatHex(Deref(s.Address)) ELSE <<>>,
        IF s.Bus # Nil
            THEN <<",", "bus", "=">> \o FormatDecimal(Deref(s.Bus)) ELSE <<>>,
        IF s.Repeatability # EmptyString
            THEN <<",", "repeatablility", "=">> \o s.Repeatability ELSE <<>>,
        IF s.TempOffset # 0
            THEN <<",", "temp_offset", "=">> \o FormatFloat(s.TempOffset) ELSE <<>>,
        IF s.HumidityOffset # 0
            THEN <<",", "humidity_offset", "=">> \o FormatFloat(s.HumidityOffset) ELSE <<>> >>)

\* ------------------------------------------------- parseSensorFlags
\* What parseSensorFlags returns: the flags, and the error (failed = err != nil).
Parsed(flags) == [flags |-> flags, failed |-> FALSE, err |-> EmptyString]
Failed(flags, err) == [flags |-> flags, failed |-> TRUE, err |-> err]

\* address := uint8(address8); flags.Address = &address
\* (Faulty variant: zero is kept as the nil pointer, a sentinel for "unset".)
AddressPtrSentinel(address8) == IF address8 = 0 THEN Nil ELSE Ptr(address8 % 256)

AddressPtr(address8) == Ptr(address8 % 256)

\* bus := int(bus32); flags.Bus = &bus
BusPtr(bus32) == Ptr(bus32)

\* The default case of the switch: the error names key_value[0].
\* (Faulty variant: the error names the whole field.)
UnknownOptionWholeField(flags, key_value) ==
    Failed(flags, <<"Unknown sensor option '">>
                  \o (IF Len(key_value) = 2
                      THEN key_value[1] \o <<"=">> \o key_value[2] ELSE key_value[1])
                  \o <<"'", ".">>)

UnknownOption(flags, key_value) ==
    Failed(flags, <<"Unknown sensor option '">> \o key_value[1] \o <<"'", ".">>)

\* case "address"
\* (Faulty variant: the address is parsed as a signed 32-bit integer.)
ParseAddressSigned(flags, value) ==
    LET r == ParseInt32(value)
    IN  IF r.ok THEN Parsed([flags EXCEPT !.Address = AddressPtr(r.value)])
        ELSE Failed(flags, <<"Specified address '">> \o value
                           \o <<"' is not an unsigned integer: ">> \o r.err)

ParseAddress(flags, value) ==
    LET r == ParseUint8(value)
    IN  IF r.ok THEN Parsed([flags EXCEPT !.Address = AddressPtr(r.value)])
        ELSE Failed(flags, <<"Specified address '">> \o value
                           \o <<"' is not an unsigned integer: ">> \o r.err)

\* case "bus"
ParseBus(flags, value) ==
    LET r == ParseInt32(value)
    IN  IF r.ok THEN Parsed([flags EXCEPT !.Bus = BusPtr(r.value)])
        ELSE Failed(flags, <<"Specified bus '">> \o value
                           \o <<"' is not an integer: ">> \o r.err)

\* case "temp_offset": the field is assigned before the error is tested.
ParseTempOffset(flags, value) ==
    LET r == ParseFloat64(value)
        assigned == [flags EXCEPT !.TempOffset = r.value]
    IN  IF r.ok THEN Parsed(assigned)
        ELSE Failed(assigned, <<"Failed to parse temperature offset '">> \o value
                              \o <<"': ">> \o r.err)

\* case "humidity_offset"
ParseHumidityOffset(flags, value) ==
    LET r == ParseFloat64(value)
        assigned == [flags EXCEPT !.HumidityOffset = r.value]
    IN  IF r.ok THEN Parsed(assigned)
        ELSE Failed(assigned, <<"Failed to parse humidity offset '">> \o value
                              \o <<"': ">> \o r.err)

\* The value of a field split at its first "=": empty when there is no "=".
FieldValue(key_value) == IF Len(key_value) = 2 THEN key_value[2] ELSE EmptyString

\* The loop body: one field, split at its first "=", through the switch.
\* (Faulty variant: a field with an unknown key is skipped.)
ParseFieldSkippingUnknown(flags, key_value) ==
    LET key == key_value[1]
        value == FieldValue(key_value)
    IN  CASE key = <<"address">> -> ParseAddress(flags, value)
          [] key = <<"bus">> -> ParseBus(flags, value)
          [] key = <<"repeatability">> -> Parsed([flags EXCEPT !.Repeatability = value])
          [] key = <<"temp_offset">> -> ParseTempOffset(flags, value)
          [] key = <<"humidity_offset">> -> ParseHumidityOffset(flags, value)
          [] OTHER -> Parsed(flags)

ParseField(flags, key_value) ==
    LET key == key_value[1]
        value == FieldValue(key_value)
    IN  CASE key = <<"address">> -> ParseAddress(flags, value)
          [] key = <<"bus">> -> ParseBus(flags, value)
          [] key = <<"repeatability">> -> Parsed([flags EXCEPT !.Repeatability = value])
          [] key = <<"temp_offset">> -> ParseTempOffset(flags, value)
          [] key = <<"humidity_offset">> -> ParseHumidityOffset(flags, value)
          [] OTHER -> UnknownOption(flags, key_value)

\* for _, field := range fields[1:]: the first failing field returns.
RECURSIVE ParseFields(_, _)
ParseFields(flags, fields) ==
    IF fields = <<>> THEN Parsed(flags)
    ELSE LET r == ParseField(flags, SplitN2(Head(fields), "="))
         IN  IF r.failed THEN r ELSE ParseFields(r.flags, Tail(fields))

\* flags.Model = fields[0]
ModelOf(fields) == fields[1]

parseSensorFlags(sensor) ==
    LET fields == Split(sensor, ",")
    IN  ParseFields([ZeroFlags EXCEPT !.Model = ModelOf(fields)], Tail(fields))

\* ------------------------------------------------------------- state
VARIABLES
    collector,    \* collector[c]: TempOffset, HumidityOffset of sensorCollector c
    described,    \* described[c]: descriptors c sent when it was registered
    serving,      \* main reached http.ListenAndServe
    mutex,        \* mutex[c]: the sync.Mutex field of the sensor c owns
    pc,           \* pc[g]: where goroutine g is inside Collect / Poll
    coll,         \* coll[g]: the collector whose Collect g runs
    s_mutex,      \* s_mutex[g]: the mutex of Poll's receiver s, a copy of the sensor
    readings,     \* readings[g]: Poll's local variable, then its result
    err,          \* err[g]: Poll returned an error
    ch,           \* ch[g]: the metrics g's Collect sent on the channel
    hw,           \* hw[g]: what the transport returned to g in this call (history)
    lastFailed,   \* lastFailed[c]: the latest finished Collect of c had a failed Poll (history)
    afterFail,    \* afterFail[g]: g's Collect began after a failed Collect of its collector (history)
    supported,    \* supported[g]: the humidity read of g's call reported humidity as supported (history)
    scrapes,      \* number of Collect calls begun so far (history)
    args,         \* flag.Args(): the positional descriptors of the command line
    phase,        \* where main is: "starting", "serving", "fatal", "panic", "tested"
    sensors,      \* main's sensors slice, the entries parsed so far
    printed,      \* what main printed for each parsed entry (its String())
    fatal,        \* the message of the log.Fatal / panic that ended the process
    built,        \* the collectors registered by main's second loop, in order
    openFailed,   \* a transport failed to open (history)
    batch         \* the result of a parseSensors call, Nil before the call

mainVars == <<args, phase, sensors, printed, fatal, built, openFailed, batch>>

vars == <<collector, described, serving, mutex, pc, coll, s_mutex, readings, err,
          ch, hw, lastFailed, afterFail, supported, scrapes, mainVars>>

\* The two Sensor implementations: main's switch on flags.Model.
IsSHT3x(c) == c = "SHT35"
IsBME280(c) == c = "BME280"

\* ------------------------------------------------- sensorCollector
\* The descriptors NewSensorCollector creates (the struct's *prometheus.Desc fields).
Up == "sensor_up"
TemperatureC == "sensor_temperature_celsius"
HumidityRH == "sensor_humidity_percent"
HumidityGram == "sensor_humidity_grams_per_cubic_meter"
RawTempC == "sensor_raw_temperature_celsius"
RawHumidityRH == "sensor_raw_humidity_percent"

\* A metric sent on the channel: <<descriptor, value>>.
Metric(desc, value) == <<desc, value>>
Names(metrics) == {m[1] : m \in metrics}

\* Describe: the descriptors sent, in any order.
Describe(c) == {TemperatureC, HumidityRH, HumidityGram, Up}

\* Collect, first statement group: sensor_up from Poll's error.
\* (Faulty variant: sensor_up stays 0 once a poll of the collector has failed.)
UpMetricSticky(c, e) == {Metric(Up, IF e \/ lastFailed[c] THEN 0 ELSE 1)}

UpMetric(c, e) == {Metric(Up, IF e THEN 0 ELSE 1)}

\* Collect, if readings.temperature != nil.
\* (Faulty variant: the raw temperature is not sent.)
TemperatureMetricsNoRaw(c, r) ==
    IF r.temperature # Nil
    THEN {Metric(TemperatureC, Deref(r.temperature) + collector[c].TempOffset)}
    ELSE {}

TemperatureMetrics(c, r) ==
    IF r.temperature # Nil
    THEN {Metric(TemperatureC, Deref(r.temperature) + collector[c].TempOffset),
          Metric(RawTempC, Deref(r.temperature))}
    ELSE {}

\* Collect, the innermost if: absolute humidity from the corrected pair.
\* (Faulty variant: the arguments of the conversion in the order temperature,
\* humidity, as older revisions passed them.)
AbsoluteHumidityMetricSwapped(c, r) ==
    IF r.temperature # Nil
    THEN {Metric(HumidityGram,
                 round64(Relative2AbsoluteHumidity(
                             Deref(r.temperature) + collector[c].TempOffset,
                             Deref(r.humidity) + collector[c].HumidityOffset), 2))}
    ELSE {}

AbsoluteHumidityMetric(c, r) ==
    IF r.temperature # Nil
    THEN {Metric(HumidityGram,
                 round64(Relative2AbsoluteHumidity(
                             Deref(r.humidity) + collector[c].HumidityOffset,
                             Deref(r.temperature) + collector[c].TempOffset), 2))}
    ELSE {}

\* Collect, if readings.humidity != nil.
HumidityMetrics(c, r) ==
    IF r.humidity # Nil
    THEN {Metric(HumidityRH, Deref(r.humidity) + collector[c].HumidityOffset),
          Metric(RawHumidityRH, Deref(r.humidity))}
         \cup AbsoluteHumidityMetric(c, r)
    ELSE {}

\* Collect: everything sent on the channel, given what Poll returned.
Collect(c, r, e) ==
    UpMetric(c, e) \cup TemperatureMetrics(c, r) \cup HumidityMetrics(c, r)

\* --------------------------------------------------------------- Init
\* The descriptors parsed, the sensors constructed; no collector registered yet.
Init ==
    /\ collector \in CommandLines
    /\ described = [c \in Collectors |-> {}]
    /\ serving = FALSE
    /\ mutex = [c \in Collectors |-> "unlocked"]
    /\ pc = [g \in Goroutines |-> "idle"]
    /\ coll = [g \in Goroutines |-> "none"]
    /\ s_mutex = [g \in Goroutines |-> "unlocked"]
    /\ readings = [g \in Goroutines |-> ZeroReadings]
    /\ err = [g \in Goroutines |-> FALSE]
    /\ ch = [g \in Goroutines |-> {}]
    /\ hw = [g \in Goroutines |-> ZeroReadings]
    /\ lastFailed = [c \in Collectors |-> FALSE]
    /\ afterFail = [g \in Goroutines |-> FALSE]
    /\ supported = [g \in Goroutines |-> TRUE]
    /\ scrapes = 0
    /\ args = <<>>
    /\ phase = "starting"
    /\ sensors = <<>>
    /\ printed = <<>>
    /\ fatal = EmptyString
    /\ built = <<>>
    /\ openFailed = FALSE
    /\ batch = Nil

\* ------------------------------------------------------------- main
\* main's loop body: NewSensorCollector, then prometheus.MustRegister, which
\* calls the collector's Describe.  Describe reads the descriptors only.
MustRegister(c) ==
    /\ ~serving
    /\ described[c] = {}
    /\ described' = [described EXCEPT ![c] = Describe(c)]
    /\ UNCHANGED <<collector, serving, mutex, pc, coll, s_mutex, readings, err,
                   ch, hw, lastFailed, afterFail, supported, scrapes, mainVars>>

\* main's last statement, reached once every sensor is registered.
ListenAndServe ==
    /\ ~serving
    /\ \A c \in Collectors : described[c] # {}
    /\ serving' = TRUE
    /\ UNCHANGED <<collector, described, mutex, pc, coll, s_mutex, readings, err,
                   ch, hw, lastFailed, afterFail, supported, scrapes, mainVars>>

\* ------------------------------------------------------ Collect / Poll
\* The registry runs Collect of collector c in goroutine g.  Collect calls
\* collector.Sensor.Poll(): Poll has a value receiver, so the call copies the
\* sensor struct, its mutex included, into s; readings starts zeroed.
CollectCallsPoll(g, c) ==
    /\ serving
    /\ scrapes < MaxScrapes
    /\ pc[g] \in {"idle", "done"}
    /\ scrapes' = scrapes + 1
    /\ pc' = [pc EXCEPT ![g] = "lock"]
    /\ coll' = [coll EXCEPT ![g] = c]
    /\ s_mutex' = [s_mutex EXCEPT ![g] = mutex[c]]
    /\ readings' = [readings EXCEPT ![g] = ZeroReadings]
    /\ err' = [err EXCEPT ![g] = FALSE]
    /\ ch' = [ch EXCEPT ![g] = {}]
    /\ hw' = [hw EXCEPT ![g] = ZeroReadings]
    /\ afterFail' = [afterFail EXCEPT ![g] = lastFailed[c]]
    /\ supported' = [supported EXCEPT ![g] = TRUE]
    /\ UNCHANGED <<collector, described, serving, mutex, lastFailed, mainVars>>

\* s.mutex.Lock(): blocks while s.mutex is locked; the raw read follows.
Lock(g) ==
    /\ pc[g] \in {"lock", "lock2"}
    /\ s_mutex[g] = "unlocked"
    /\ s_mutex' = [s_mutex EXCEPT ![g] = "locked"]
    /\ pc' = [pc EXCEPT ![g] = IF pc[g] = "lock" THEN "read" ELSE "read2"]
    /\ UNCHANGED <<collector, described, serving, mutex, coll, readings, err,
                   ch, hw, lastFailed, afterFail, supported, scrapes, mainVars>>

\* Poll returns (r, e) to Collect, which sends its metrics and returns.
PollReturns(g, r, e) ==
    /\ readings' = [readings EXCEPT ![g] = r]
    /\ err' = [err EXCEPT ![g] = e]
    /\ ch' = [ch EXCEPT ![g] = Collect(coll[g], r, e)]
    /\ pc' = [pc EXCEPT ![g] = "done"]
    /\ lastFailed' = [lastFailed EXCEPT ![coll[g]] = e]

\* SHT3xSensor.Poll from the return of ReadTemperatureAndRelativeHumidity:
\* s.mutex.Unlock(), then the error return or the two rounded values.
SHT3xRead(g) ==
    /\ pc[g] = "read"
    /\ IsSHT3x(coll[g])
    /\ s_mutex' = [s_mutex EXCEPT ![g] = "unlocked"]
    /\ \/ /\ hw' = hw
          /\ PollReturns(g, readings[g], TRUE)
       \/ \E temp \in RawTemperatures, rh \in RawHumidities :
             /\ hw' = [hw EXCEPT ![g] = [temperature |-> Ptr(temp), humidity |-> Ptr(rh)]]
             /\ PollReturns(g, [temperature |-> Ptr(round64(temp, 2)),
                                humidity |-> Ptr(round64(rh, 2))], FALSE)
    /\ UNCHANGED <<collector, described, serving, mutex, coll, afterFail, supported, scrapes, mainVars>>

\* BME280Sensor.Poll from the return of ReadTemperatureC: s.mutex.Unlock(),
\* then the error return, or readings.temperature is set and Poll goes on.
BME280ReadTemperature(g) ==
    /\ pc[g] = "read"
    /\ IsBME280(coll[g])
    /\ s_mutex' = [s_mutex EXCEPT ![g] = "unlocked"]
    /\ \/ /\ hw' = hw
          /\ PollReturns(g, readings[g], TRUE)
       \/ \E temp \in RawTemperatures :
             /\ hw' = [hw EXCEPT ![g].temperature = Ptr(temp)]
             /\ readings' = [readings EXCEPT ![g].temperature = Ptr(round64(temp, 2))]
             /\ pc' = [pc EXCEPT ![g] = "lock2"]
             /\ UNCHANGED <<err, ch, lastFailed>>
    /\ UNCHANGED <<collector, described, serving, mutex, coll, afterFail, supported, scrapes, mainVars>>

\* BME280Sensor.Poll from the return of ReadHumidityRH: s.mutex.Unlock(), then
\* the error return with readings as it stands, or readings.humidity is set
\* from the value returned.  ReadHumidityRH returns (supported, rh, err) and
\* Poll assigns the first result to _: a device without a humidity sensor
\* answers (false, 0, nil).
BME280ReadHumidity(g) ==
    /\ pc[g] = "read2"
    /\ IsBME280(coll[g])
    /\ s_mutex' = [s_mutex EXCEPT ![g] = "unlocked"]
    /\ \/ /\ hw' = hw
          /\ supported' = supported
          /\ PollReturns(g, readings[g], TRUE)
       \/ \E rh \in RawHumidities :
             /\ hw' = [hw EXCEPT ![g].humidity = Ptr(rh)]
             /\ supported' = supported
             /\ PollReturns(g, [readings[g] EXCEPT !.humidity = Ptr(round64(rh, 2))], FALSE)
       \/ /\ hw' = [hw EXCEPT ![g].humidity = Ptr(0)]
          /\ supported' = [supported EXCEPT ![g] = FALSE]
          /\ PollReturns(g, [readings[g] EXCEPT !.humidity = Ptr(round64(0, 2))], FALSE)
    /\ UNCHANGED <<collector, described, serving, mutex, coll, afterFail, scrapes, mainVars>>

Next ==
    \/ \E c \in Collectors : MustRegister(c)
    \/ ListenAndServe
    \/ \E g \in Goroutines, c \in Collectors : CollectCallsPoll(g, c)
    \/ \E g \in Goroutines : Lock(g)
    \/ \E g \in Goroutines : SHT3xRead(g)
    \/ \E g \in Goroutines : BME280ReadTemperature(g)
    \/ \E g \in Goroutines : BME280ReadHumidity(g)

Spec == Init /\ [][Next]_vars

\* ------------------------------------------- Collect over the Sensor interface
\* Every Readings value over the bounded raw values, as a Poll would round them.
AnyReadings ==
    {[temperature |-> t, humidity |-> h] :
        t \in {Nil} \cup {Ptr(round64(x, 2)) : x \in RawTemperatures},
        h \in {Nil} \cup {Ptr(round64(x, 2)) : x \in RawHumidities}}

\* Collect as written against the Sensor interface: collector.Sensor.Poll() is
\* whatever implementation the collector holds, returning any (Readings, error).
CollectWith(g, c, r, e) ==
    /\ serving
    /\ scrapes < MaxScrapes
    /\ pc[g] \in {"idle", "done"}
    /\ scrapes' = scrapes + 1
    /\ coll' = [coll EXCEPT ![g] = c]
    /\ readings' = [readings EXCEPT ![g] = r]
    /\ err' = [err EXCEPT ![g] = e]
    /\ ch' = [ch EXCEPT ![g] = Collect(c, r, e)]
    /\ hw' = [hw EXCEPT ![g] = r]
    /\ pc' = [pc EXCEPT ![g] = "done"]
    /\ afterFail' = [afterFail EXCEPT ![g] = lastFailed[c]]
    /\ lastFailed' = [lastFailed EXCEPT ![c] = e]
    /\ UNCHANGED <<collector, described, serving, mutex, s_mutex, supported, mainVars>>

NextCollect ==
    \/ \E c \in Collectors : MustRegister(c)
    \/ ListenAndServe
    \/ \E g \in {"g1", "g2"}, c \in Collectors, r \in AnyReadings, e \in BOOLEAN :
          CollectWith(g, c, r, e)

SpecCollect == Init /\ [][NextCollect]_vars

\* ---------------------------------------------------- command lines
\* ",key=value" and ",key" as they appear in a descriptor.
KV(key, value) == <<",", key, "=">> \o value
Bare(key) == <<",", key>>

\* The descriptors considered: those of the tests and the README, one more
\* per case of the grammar and of the factory.
Descriptors ==
    { <<"SHT35">> \o KV("bus", <<"1">>) \o KV("address", <<"0", "x", "4", "5">>)
          \o KV("repeatability", <<"high">>) \o KV("temp_offset", <<"-", "0", ".", "5">>)
          \o KV("humidity_offset", <<"2", ".", "5">>),
      <<"SHT35">> \o KV("bus", <<"1">>) \o KV("address", <<"0", "x", "4", "6">>),
      <<"BME280">> \o KV("bus", <<"0">>),
      <<"SHT31">> \o Bare("badflag"),
      <<"SHT35">> \o KV("foo", <<"bar">>),
      <<"SHT35">> \o KV("address", <<"-", "4", "2">>),
      <<"SHT35">> \o KV("bus", <<"foo">>),
      <<"SHT35">> \o KV("temp_offset", <<"caffee">>),
      <<"SHT35">> \o KV("humidity_offset", <<"hum">>),
      EmptyString,
      KV("bus", <<"1">>),
      <<"SHT35">> \o KV("address", <<"2", "5", "6">>),
      <<"SHT35">> \o Bare("address"),
      <<"SHT35">> \o KV("address", <<"-", "4", "2">>) \o KV("foo", <<"bar">>),
      <<"SHT35">> \o Bare("foo") \o KV("bus", <<"x">>),
      <<"SHT35">> \o KV("bus", <<"1">>) \o KV("foo", <<"bar">>),
      <<"SHT35">> \o KV("address", <<"0", "b", "1", "0", "1">>) \o KV("bus", <<"1">>),
      <<"SHT35">> \o KV("bus", <<"2", "1", "4", "7", "4", "8", "3", "6", "4", "8">>),
      <<"BME280">> \o KV("address", <<"0">>) \o KV("bus", <<"0">>),
      <<"BME280">> \o KV("address", <<"0", "x", "7", "6">>) \o KV("bus", <<"1">>),
      <<"BMP180">> \o KV("address", <<"0", "x", "7", "7">>) \o KV("bus", <<"1">>),
      <<"BMP280">> \o KV("address", <<"0", "x", "7", "6">>) \o KV("bus", <<"1">>),
      <<"BMP388">> \o KV("address", <<"0", "x", "7", "6">>) \o KV("bus", <<"1">>),
      <<"SHT30">> \o KV("address", <<"0", "x", "4", "4">>) \o KV("bus", <<"1">>),
      <<"SHT31">> \o KV("address", <<"0", "x", "4", "4">>) \o KV("bus", <<"1">>),
      <<"DHT22">> \o KV("address", <<"0", "x", "1", "0">>) \o KV("bus", <<"1">>),
      <<"SHT35">> \o KV("address", <<"6", "9">>) \o KV("bus", <<"1">>)
          \o KV("repeatability", <<"bogus">>),
      <<"SHT35">> \o KV("address", <<"0", "1", "7">>) \o KV("bus", <<"-", "1">>)
          \o KV("temp_offset", <<"1", ".", "2", "3", "4">>),
      <<"SHT35">> \o KV("address", <<"0", "x", "4", "5">>) \o KV("bus", <<"0">>),
      <<"BME280">> \o KV("address", <<"0", "x", "7", "7">>) \o KV("bus", <<"1">>)
          \o KV("repeatability", <<"bogus">>) }

\* The command lines considered: up to MaxArgs positional descriptors.
MaxArgs == 2

RECURSIVE SeqsUpTo(_, _)
SeqsUpTo(S, n) ==
    IF n = 0 THEN {<<>>}
    ELSE LET shorter == SeqsUpTo(S, n - 1)
         IN  shorter \cup {Append(q, x) : q \in shorter, x \in S}

ArgLists == SeqsUpTo(Descriptors, MaxArgs)

\* ------------------------------------------------------------ factory
\* The models main's switch knows.
SelectVariant(model) ==
    CASE model = <<"SHT35">> -> "SHT3x"
      [] model = <<"BME280">> -> "BME280"
      [] OTHER -> "fatal"

\* The switch on flags.Repeatability.
KnownRepeatability == {<<"low">>, <<"medium">>, <<"high">>}

\* What a factory call comes to: a sensor, a log.Fatal, or a runtime panic.
Constructed(sensor) == [outcome |-> "ok", sensor |-> sensor, msg |-> EmptyString]
Fatal(msg) == [outcome |-> "fatal", sensor |-> Nil, msg |-> msg]
Panic(msg) == [outcome |-> "panic", sensor |-> Nil, msg |-> msg]

\* *flags.Address = ... with flags.Address == nil: storing through a nil
\* pointer is a runtime panic.
NilDereference == Panic(<<"runtime error: invalid memory address or nil pointer dereference">>)

\* NewSensor: opens the transport (fatal when that fails), builds the sensor.
NewSensor(address, bus, model, repeatability_str, opened) ==
    IF ~opened THEN Fatal(<<"i2c.NewI2C: ", "open failed">>)
    ELSE Constructed([family |-> "SHT3x", Address |-> address, Bus |-> bus,
                      Model |-> model, repeatability_str |-> repeatability_str,
                      chip |-> "SHT3X"])

\* NewBME280Sensor: opens the transport, then bsbmp.NewBMP(bsbmp.BME280, i2c).
NewBME280Sensor(address, bus, model, opened) ==
    IF ~opened THEN Fatal(<<"i2c.NewI2C: ", "open failed">>)
    ELSE Constructed([family |-> "BME280", Address |-> address, Bus |-> bus,
                      Model |-> model, repeatability_str |-> EmptyString,
                      chip |-> "BME280"])

SensorFromFlags(flags, opened) ==
    IF flags.Address = Nil THEN NilDereference
    ELSE IF flags.Bus = Nil THEN NilDereference
    ELSE LET repeatability == IF flags.Repeatability = EmptyString
                              THEN <<"high">> ELSE flags.Repeatability
         IN  IF repeatability \notin KnownRepeatability
             THEN Fatal(<<"Unknown repeatability: ">> \o repeatability)
             ELSE NewSensor(Deref(flags.Address), Deref(flags.Bus), flags.Model,
                            repeatability, opened)

BME280SensorFromFlags(flags, opened) ==
    IF flags.Address = Nil THEN NilDereference
    ELSE IF flags.Bus = Nil THEN NilDereference
    ELSE NewBME280Sensor(Deref(flags.Address), Deref(flags.Bus), flags.Model, opened)

\* Sensor.Labels(): the constant labels of a sensor's descriptors.
Labels(sensor) ==
    [address |-> <<"0", "x">> \o FormatHex(sensor.Address),
     bus |-> FormatDecimal(sensor.Bus),
     model |-> sensor.Model,
     repeatability |-> sensor.repeatability_str]

\* The body of main's second loop for one entry.
BuildSensor(flags, opened) ==
    LET variant == SelectVariant(flags.Model)
    IN  CASE variant = "SHT3x" -> SensorFromFlags(flags, opened)
          [] variant = "BME280" -> BME280SensorFromFlags(flags, opened)
          [] OTHER -> Fatal(<<"Invalid model '">> \o flags.Model \o <<"'", "!">>)

\* ------------------------------------------------------------ start-up
\* main's first loop, one iteration: parse the next positional argument,
\* log.Fatal on an error, else keep the flags and print them.
ParseArg ==
    /\ phase = "starting"
    /\ Len(sensors) < Len(args)
    /\ LET r == parseSensorFlags(args[Len(sensors) + 1])
       IN  IF r.failed
           THEN /\ phase' = "fatal"
                /\ fatal' = r.err
                /\ UNCHANGED <<sensors, printed>>
           ELSE /\ sensors' = Append(sensors, r.flags)
                /\ printed' = Append(printed, String(r.flags))
                /\ UNCHANGED <<phase, fatal>>
    /\ UNCHANGED <<collector, described, serving, mutex, pc, coll, s_mutex, readings,
                   err, ch, hw, lastFailed, afterFail, supported, scrapes,
                   args, built, openFailed, batch>>

\* main's second loop, one iteration: the factory for the entry's model, then
\* NewSensorCollector and prometheus.MustRegister, which panics when a
\* collector with the same descriptors (name and labels) is registered already.
ConstructSensor(opened) ==
    /\ phase = "starting"
    /\ Len(sensors) = Len(args)
    /\ Len(built) < Len(sensors)
    /\ LET flags == sensors[Len(built) + 1]
           r == BuildSensor(flags, opened)
           registered == {Labels(built[j].sensor) : j \in 1..Len(built)}
       IN  /\ openFailed' = (openFailed \/ (r.outcome = "fatal" /\ ~opened
                                            /\ r.msg[1] = "i2c.NewI2C: "))
           /\ CASE r.outcome = "ok" /\ Labels(r.sensor) \notin registered ->
                     /\ built' = Append(built,
                                   [sensor |-> r.sensor,
                                    TempOffset |-> flags.TempOffset,
                                    HumidityOffset |-> flags.HumidityOffset])
                     /\ UNCHANGED <<phase, fatal>>
                [] r.outcome = "ok" /\ Labels(r.sensor) \in registered ->
                     /\ phase' = "panic"
                     /\ fatal' = <<"duplicate metrics collector registration attempted">>
                     /\ UNCHANGED built
                [] OTHER ->
                     /\ phase' = r.outcome
                     /\ fatal' = r.msg
                     /\ UNCHANGED built
    /\ UNCHANGED <<collector, described, serving, mutex, pc, coll, s_mutex, readings,
                   err, ch, hw, lastFailed, afterFail, supported, scrapes,
                   args, sensors, printed, batch>>

\* main's last statement: http.ListenAndServe, after both loops.
MainListenAndServe ==
    /\ phase = "starting"
    /\ Len(sensors) = Len(args)
    /\ Len(built) = Len(sensors)
    /\ phase' = "serving"
    /\ serving' = TRUE
    /\ UNCHANGED <<collector, described, mutex, pc, coll, s_mutex, readings,
                   err, ch, hw, lastFailed, afterFail, supported, scrapes,
                   args, sensors, printed, fatal, built, openFailed, batch>>

\* The process starts with a command line and nothing parsed.
InitMain ==
    /\ collector = [c \in Collectors |-> Offsets(0, 0)]
    /\ described = [c \in Collectors |-> {}]
    /\ serving = FALSE
    /\ mutex = [c \in Collectors |-> "unlocked"]
    /\ pc = [g \in Goroutines |-> "idle"]
    /\ coll = [g \in Goroutines |-> "none"]
    /\ s_mutex = [g \in Goroutines |-> "unlocked"]
    /\ readings = [g \in Goroutines |-> ZeroReadings]
    /\ err = [g \in Goroutines |-> FALSE]
    /\ ch = [g \in Goroutines |-> {}]
    /\ hw = [g \in Goroutines |-> ZeroReadings]
    /\ lastFailed = [c \in Collectors |-> FALSE]
    /\ afterFail = [g \in Goroutines |-> FALSE]
    /\ supported = [g \in Goroutines |-> TRUE]
    /\ scrapes = 0
    /\ args \in ArgLists
    /\ phase = "starting"
    /\ sensors = <<>>
    /\ printed = <<>>
    /\ fatal = EmptyString
    /\ built = <<>>
    /\ openFailed = FALSE
    /\ batch = Nil

NextMain ==
    \/ ParseArg
    \/ \E opened \in BOOLEAN : ConstructSensor(opened)
    \/ MainListenAndServe

SpecMain == InitMain /\ [][NextMain]_vars

\* ------------------------------------------------------------ claims
Done(g) == pc[g] = "done"
InRawRead(g) == pc[g] \in {"read", "read2"}
BothSet(r) == r.temperature # Nil /\ r.humidity # Nil

\* What Poll makes of the raw values the transport returned.
Rounded(raw) ==
    [temperature |-> IF raw.temperature = Nil THEN Nil
                     ELSE Ptr(round64(Deref(raw.temperature), 2)),
     humidity |-> IF raw.humidity = Nil THEN Nil
                  ELSE Ptr(round64(Deref(raw.humidity), 2))]

\* C1: a Collect whose Poll returned an error sends exactly sensor_up = 0 and
\* no temperature, humidity or absolute-humidity metric.
C1_FailedPollSendsOnlyUpZero ==
    \A g \in Goroutines : (Done(g) /\ err[g]) => ch[g] = {Metric(Up, 0)}

\* C2: no two concurrent Poll calls on one sensor are in a raw transport read
\* at the same time.
C2_OneRawReadPerSensor ==
    \A g, h \in Goroutines :
        (g # h /\ InRawRead(g) /\ InRawRead(h)) => coll[g] # coll[h]

\* C3: whenever Poll returns an error, the Readings it returns has temperature
\* and humidity both unset.
C3_ErrorReturnsUnsetReadings ==
    \A g \in Goroutines : (Done(g) /\ err[g]) => readings[g] = ZeroReadings

\* C4: what a collector sends depends only on its own poll: sensor_up = 0 alone
\* if its own Poll failed, else the metrics of its own reading and offsets,
\* whatever the other collectors' polls did in the same scrape.
C4_CollectorsIsolated ==
    \A g \in Goroutines :
        Done(g) =>
            ch[g] = IF err[g] THEN {Metric(Up, 0)}
                    ELSE Collect(coll[g], Rounded(hw[g]), FALSE)

\* C5: a Collect that follows a failed Collect of the same collector polls the
\* hardware afresh, and when that poll succeeds it sends sensor_up = 1 and the
\* values of the new reading only; the process is still serving.
C5_FreshPollAfterFailure ==
    \A g \in Goroutines :
        (Done(g) /\ afterFail[g] /\ ~err[g]) =>
            /\ serving
            /\ BothSet(hw[g])
            /\ readings[g] = Rounded(hw[g])
            /\ Metric(Up, 1) \in ch[g]
            /\ Metric(Up, 0) \notin ch[g]
            /\ Metric(RawTempC, round64(Deref(hw[g].temperature), 2)) \in ch[g]
            /\ Metric(RawHumidityRH, round64(Deref(hw[g].humidity), 2)) \in ch[g]
            /\ \A m \in ch[g] : m[1] = RawTempC => m[2] = round64(Deref(hw[g].temperature), 2)
            /\ \A m \in ch[g] : m[1] = RawHumidityRH => m[2] = round64(Deref(hw[g].humidity), 2)

C5_Witness ==
    \E g \in Goroutines : Done(g) /\ afterFail[g] /\ ~err[g] /\ BothSet(hw[g])

\* C6: a Poll that finds another Poll of the same sensor inside its raw read
\* waits: it does not take the lock and start its own raw read in that state.
C6_PollWaitsForLock ==
    [][\A g \in Goroutines :
          (pc[g] \in {"lock", "lock2"} /\ pc'[g] \in {"read", "read2"}) =>
              ~\E h \in Goroutines : h # g /\ coll[h] = coll[g] /\ InRawRead(h)]_vars

\* C7: after a successful Poll, sensor_humidity_grams_per_cubic_meter is sent
\* exactly when temperature and humidity are both set, and its value is the
\* 2-decimal rounding of Relative2AbsoluteHumidity(humidity + humidityOffset,
\* temperature + tempOffset).
C7_AbsoluteHumidityOfCorrectedPair ==
    \A g \in Goroutines :
        (Done(g) /\ ~err[g]) =>
            LET r == readings[g]
                c == coll[g]
            IN  /\ (HumidityGram \in Names(ch[g])) <=> BothSet(r)
                /\ BothSet(r) =>
                      {m \in ch[g] : m[1] = HumidityGram} =
                      {Metric(HumidityGram,
                              round64(Relative2AbsoluteHumidity(
                                          Deref(r.humidity) + collector[c].HumidityOffset,
                                          Deref(r.temperature) + collector[c].TempOffset), 2))}

C7_Witness ==
    /\ \E g \in Goroutines :
          Done(g) /\ ~err[g] /\ BothSet(readings[g]) /\ collector[coll[g]].TempOffset # 0
             /\ HumidityGram \in Names(ch[g])
    /\ \E g \in Goroutines :
          Done(g) /\ ~err[g] /\ ~BothSet(readings[g]) /\ HumidityGram \notin Names(ch[g])

\* C8: after a successful Poll with temperature and humidity both set,
\* sensor_raw_humidity_grams_per_cubic_meter is sent.
C8_RawAbsoluteHumiditySent ==
    \A g \in Goroutines :
        (Done(g) /\ ~err[g] /\ BothSet(readings[g])) =>
            "sensor_raw_humidity_grams_per_cubic_meter" \in Names(ch[g])

\* C9: after a successful Poll with temperature set and humidity unset, the
\* metrics sent are exactly sensor_up = 1, the corrected and the raw temperature.
C9_TemperatureOnlyReading ==
    \A g \in Goroutines :
        (Done(g) /\ ~err[g] /\ readings[g].temperature # Nil /\ readings[g].humidity = Nil) =>
            ch[g] = {Metric(Up, 1),
                     Metric(TemperatureC,
                            Deref(readings[g].temperature) + collector[coll[g]].TempOffset),
                     Metric(RawTempC, Deref(readings[g].temperature))}

C9_Witness ==
    \E g \in Goroutines :
        /\ Done(g) /\ ~err[g]
        /\ readings[g].temperature # Nil /\ readings[g].humidity = Nil
        /\ Cardinality(ch[g]) = 3

\* C10: the descriptors a collector sent in Describe include the descriptor of
\* every metric any of its Collect calls sends.
C10_DescribeCoversCollect ==
    \A g \in Goroutines : Done(g) => Names(ch[g]) \subseteq described[coll[g]]

\* C11: after a successful Poll, each raw metric is the polled value and each
\* corrected metric is raw + offset rounded to 2 decimals, whatever the offset.
C11_CorrectedRoundedToTwoDecimals ==
    \A g \in Goroutines :
        (Done(g) /\ ~err[g]) =>
            LET r == readings[g]
                c == coll[g]
            IN  /\ r.temperature # Nil =>
                      /\ Metric(RawTempC, Deref(r.temperature)) \in ch[g]
                      /\ Metric(TemperatureC,
                                round64(Deref(r.temperature) + collector[c].TempOffset, 2))
                            \in ch[g]
                /\ r.humidity # Nil =>
                      /\ Metric(RawHumidityRH, Deref(r.humidity)) \in ch[g]
                      /\ Metric(HumidityRH,
                                round64(Deref(r.humidity) + collector[c].HumidityOffset, 2))
                            \in ch[g]

\* ------------------------------------------------------ parseSensors
\* parseSensors(args), as the tests call it: the records in input order, or,
\* at the first descriptor that fails, an error naming its 1-based index and
\* its text and wrapping the cause.
BatchError(i, text, cause) ==
    <<"sensor ">> \o FormatDecimal(i) \o <<" '">> \o text \o <<"': ">> \o cause

RECURSIVE ParseSensorsFrom(_, _, _)
ParseSensorsFrom(a, i, parsed) ==
    IF i > Len(a) THEN [sensors |-> parsed, failed |-> FALSE, err |-> EmptyString]
    ELSE LET r == parseSensorFlags(a[i])
         IN  IF r.failed
             THEN [sensors |-> <<>>, failed |-> TRUE, err |-> BatchError(i, a[i], r.err)]
             ELSE ParseSensorsFrom(a, i + 1, Append(parsed, r.flags))

parseSensors(a) == ParseSensorsFrom(a, 1, <<>>)

\* A test calls parseSensors on a list of descriptors.
ParseSensorsCall ==
    /\ phase = "starting"
    /\ batch = Nil
    /\ batch' = Ptr(parseSensors(args))
    /\ phase' = "tested"
    /\ UNCHANGED <<collector, described, serving, mutex, pc, coll, s_mutex, readings,
                   err, ch, hw, lastFailed, afterFail, supported, scrapes,
                   args, sensors, printed, fatal, built, openFailed>>

NextBatch == ParseSensorsCall

SpecBatch == InitMain /\ [][NextBatch]_vars

\* -------------------------------------------------- claims on start-up
\* The rendering the grammar prescribes for a parsed record: the model, then
\* the set fields in the order address, bus, repeatability, temp_offset,
\* humidity_offset, each as ,key=value with the grammar's key.
CanonicalString(s) ==
    Concat(<<
        s.Model,
        IF s.Address # Nil
            THEN KV("address", <<"0", "x">> \o FormatHex(Deref(s.Address))) ELSE <<>>,
        IF s.Bus # Nil THEN KV("bus", FormatDecimal(Deref(s.Bus))) ELSE <<>>,
        IF s.Repeatability # EmptyString
            THEN KV("repeatability", s.Repeatability) ELSE <<>>,
        IF s.TempOffset # 0 THEN KV("temp_offset", FormatFloat(s.TempOffset)) ELSE <<>>,
        IF s.HumidityOffset # 0
            THEN KV("humidity_offset", FormatFloat(s.HumidityOffset)) ELSE <<>> >>)

\* C12: for every descriptor parseSensorFlags accepted, String renders the
\* model first and then the set fields in the fixed order address, bus,
\* repeatability, temp_offset, humidity_offset, each key spelled as in the
\* grammar.
C12_StringIsCanonical ==
    \A j \in 1..Len(printed) : printed[j] = CanonicalString(sensors[j])

\* The first descriptor of a that parseSensorFlags rejects, 0 when none.
FirstFailing(a) ==
    LET bad == {i \in 1..Len(a) : parseSensorFlags(a[i]).failed}
    IN  IF bad = {} THEN 0 ELSE CHOOSE i \in bad : \A k \in bad : i <= k

C14_FactoryResolvesDefaults ==
    /\ phase = "panic" => fatal # NilDereference.msg
    /\ \A j \in 1..Len(built) :
          LET flags == sensors[j]
              sensor == built[j].sensor
          IN  /\ sensor.Address = IF flags.Address # Nil THEN Deref(flags.Address)
                                  ELSE IF sensor.family = "SHT3x" THEN 69 ELSE 118
              /\ sensor.Bus = IF flags.Bus # Nil THEN Deref(flags.Bus) ELSE 0
              /\ sensor.family = "SHT3x" =>
                    sensor.repeatability_str =
                        IF flags.Repeatability # EmptyString
                        THEN flags.Repeatability ELSE <<"high">>

\* The descriptor text has a field, after the model, whose key is key.
HasKey(text, key) ==
    LET fields == Split(text, ",")
    IN  \E f \in 2..Len(fields) : SplitN2(fields[f], "=")[1] = <<key>>

\* C15: the parsed record keeps "unset" apart from "explicitly zero":
\* Address / Bus are unset exactly when the descriptor has no address / bus
\* key and set, also to 0, exactly when it has one; no default is applied at
\* parse time, and "BME280,bus=0" parses to Bus set to 0 and Address unset.
C15_UnsetIsNotZero ==
    \A j \in 1..Len(sensors) :
        /\ (sensors[j].Address = Nil) <=> ~HasKey(args[j], "address")
        /\ (sensors[j].Bus = Nil) <=> ~HasKey(args[j], "bus")
        /\ args[j] = <<"BME280", ",", "bus", "=", "0">> =>
              /\ sensors[j].Bus = Ptr(0)
              /\ sensors[j].Address = Nil
        /\ args[j] = <<"BME280", ",", "address", "=", "0", ",", "bus", "=", "0">> =>
              /\ sensors[j].Bus = Ptr(0)
              /\ sensors[j].Address = Ptr(0)

\* One command line parsed with a record whose bus is an explicit 0 and whose
\* address is unset, and a record whose address is an explicit 0.
C15_Witness ==
    /\ \E j \in 1..Len(sensors) : sensors[j].Bus = Ptr(0) /\ sensors[j].Address = Nil
    /\ \E j \in 1..Len(sensors) : sensors[j].Address = Ptr(0)

\* The keys the grammar knows.
KnownKeys == {<<"address">>, <<"bus">>, <<"repeatability">>, <<"temp_offset">>,
              <<"humidity_offset">>}

\* The [key, value] pairs of the fields that follow the model in a descriptor.
KeyValues(text) ==
    LET fields == Split(text, ",")
    IN  {SplitN2(fields[f], "=") : f \in 2..Len(fields)}

\* The descriptor gives a repeatability outside {low, medium, high}.
UnknownRepeatability(text) ==
    \E kv \in KeyValues(text) :
        kv[1] = <<"repeatability">> /\ FieldValue(kv) \notin KnownRepeatability

\* C16: the server starts listening only after every descriptor has parsed,
\* every model has been recognised and every transport has been opened; with
\* an unknown key, a malformed value, an unknown model or repeatability, or a
\* transport that fails to open, the process ends and never serves.
C16_ServeOnlyAfterStartup ==
    phase = "serving" =>
        /\ Len(sensors) = Len(args)
        /\ Len(built) = Len(args)
        /\ ~openFailed
        /\ \A i \in 1..Len(args) :
              /\ ~parseSensorFlags(args[i]).failed
              /\ \A kv \in KeyValues(args[i]) : kv[1] \in KnownKeys
              /\ SelectVariant(Split(args[i], ",")[1]) # "fatal"
              /\ ~UnknownRepeatability(args[i])

\* The models the README lists as supported, by family.
BoschModels == {<<"BME280">>, <<"BMP180">>, <<"BMP280">>, <<"BMP388">>}
SensirionModels == {<<"SHT30">>, <<"SHT31">>, <<"SHT35">>}

\* C17: every model the README lists is accepted and selects its family, for
\* a Bosch model the sub-model of the descriptor is the one handed to the
\* transport, and any other model fails with an invalid-model error.
C17_ReadmeModelsSupported ==
    /\ (phase = "fatal" /\ fatal[1] = "Invalid model '") =>
           sensors[Len(built) + 1].Model \notin BoschModels \cup SensirionModels
    /\ \A j \in 1..Len(built) :
           LET sensor == built[j].sensor
           IN  /\ sensor.Model \in BoschModels \cup SensirionModels
               /\ sensor.Model \in BoschModels =>
                     (sensor.family = "BME280" /\ <<sensor.chip>> = sensor.Model)
               /\ sensor.Model \in SensirionModels => sensor.family = "SHT3x"

\* The fields that follow the model, each split at its first "=".
Fields(text) ==
    LET fields == Split(text, ",")
    IN  [f \in 1..(Len(fields) - 1) |-> SplitN2(fields[f + 1], "=")]

\* The first field of a descriptor whose key the grammar does not know, 0
\* when there is none.
FirstUnknown(text) ==
    LET unknown == {f \in 1..Len(Fields(text)) : Fields(text)[f][1] \notin KnownKeys}
    IN  IF unknown = {} THEN 0 ELSE CHOOSE f \in unknown : \A k \in unknown : f <= k

\* The value of a field with a numeric key does not parse.
Malformed(kv) ==
    \/ kv[1] = <<"address">> /\ ~ParseUint8(FieldValue(kv)).ok
    \/ kv[1] = <<"bus">> /\ ~ParseInt32(FieldValue(kv)).ok
    \/ kv[1] \in {<<"temp_offset">>, <<"humidity_offset">>} /\ ~ParseFloat64(FieldValue(kv)).ok

\* main's first loop stopped at a descriptor that did not parse.
ParseFailed == phase = "fatal" /\ Len(sensors) < Len(args)

\* The descriptor main's first loop stopped at.
Rejected == args[Len(sensors) + 1]

\* C18 as claimed: every descriptor with a field of unknown key fails, and the
\* error contains "Unknown sensor option '<key>'" naming the first such key.
C18_UnknownKeyNamed ==
    /\ \A j \in 1..Len(sensors) : FirstUnknown(args[j]) = 0
    /\ (ParseFailed /\ FirstUnknown(Rejected) # 0) =>
           Contains(fatal, <<"Unknown sensor option '">>
                           \o Fields(Rejected)[FirstUnknown(Rejected)][1] \o <<"'">>)

\* C18, amended: every descriptor with a field of unknown key fails; when no
\* field before the first such field has a malformed value, the error contains
\* "Unknown sensor option '<key>'" naming that key ("SHT35,foo=bar" names foo),
\* and otherwise it is not an unknown-option error.
C18_UnknownKeyNamedUnlessEarlierError ==
    /\ \A j \in 1..Len(sensors) : FirstUnknown(args[j]) = 0
    /\ (ParseFailed /\ FirstUnknown(Rejected) # 0) =>
           LET u == FirstUnknown(Rejected)
               named == Contains(fatal, <<"Unknown sensor option '">>
                                        \o Fields(Rejected)[u][1] \o <<"'">>)
           IN  IF \A f \in 1..(u - 1) : ~Malformed(Fields(Rejected)[f])
               THEN named
               ELSE ~Contains(fatal, <<"Unknown sensor option '">>)
    /\ (ParseFailed /\ Rejected = <<"SHT35", ",", "foo", "=", "bar">>) =>
           Contains(fatal, <<"Unknown sensor option '", "foo", "'">>)

\* The parse stopped at a descriptor whose unknown key follows a well-formed
\* field, after an earlier descriptor was accepted.
C18_Witness ==
    /\ ParseFailed
    /\ Len(sensors) = 1
    /\ FirstUnknown(Rejected) = 2
    /\ ~Malformed(Fields(Rejected)[1])

\* The first field of a descriptor whose value is malformed, 0 when none.
FirstMalformed(text) ==
    LET bad == {f \in 1..Len(Fields(text)) : Malformed(Fields(text)[f])}
    IN  IF bad = {} THEN 0 ELSE CHOOSE f \in bad : \A k \in bad : f <= k

\* The text that names the malformed value of a field and the field.
ValueError(kv) ==
    CASE kv[1] = <<"address">> ->
            <<"Specified address '">> \o FieldValue(kv) \o <<"' is not an unsigned integer: ">>
      [] kv[1] = <<"bus">> ->
            <<"Specified bus '">> \o FieldValue(kv) \o <<"' is not an integer: ">>
      [] kv[1] = <<"temp_offset">> ->
            <<"Failed to parse temperature offset '">> \o FieldValue(kv) \o <<"': ">>
      [] OTHER ->
            <<"Failed to parse humidity offset '">> \o FieldValue(kv) \o <<"': ">>

\* C19 as claimed: the parse fails whenever an address is not an unsigned
\* 8-bit integer, a bus not a signed 32-bit integer or an offset not a float,
\* and the error names the offending value and the field.
C19_MalformedValueNamed ==
    /\ \A j \in 1..Len(sensors) : FirstMalformed(args[j]) = 0
    /\ (ParseFailed /\ FirstMalformed(Rejected) # 0) =>
           Contains(fatal, ValueError(Fields(Rejected)[FirstMalformed(Rejected)]))

\* C19, amended: the parse fails whenever a value is malformed; when no field
\* with an unknown key precedes the first malformed field, the error names
\* that value and its field, as in "Specified address '-42' is not an unsigned
\* integer: ", and otherwise it is the unknown-option error.
C19_MalformedValueNamedUnlessEarlierError ==
    /\ \A j \in 1..Len(sensors) : FirstMalformed(args[j]) = 0
    /\ (ParseFailed /\ FirstMalformed(Rejected) # 0) =>
           LET m == FirstMalformed(Rejected)
               u == FirstUnknown(Rejected)
           IN  IF u = 0 \/ m < u
               THEN Contains(fatal, ValueError(Fields(Rejected)[m]))
               ELSE Contains(fatal, <<"Unknown sensor option '">>)
    /\ (ParseFailed /\ Rejected = <<"SHT35", ",", "address", "=", "-", "4", "2">>) =>
           Contains(fatal, <<"Specified address '", "-", "4", "2",
                             "' is not an unsigned integer: ">>)
    /\ (ParseFailed /\ Rejected = <<"SHT35", ",", "bus", "=", "foo">>) =>
           Contains(fatal, <<"Specified bus '", "foo", "' is not an integer: ">>)
    /\ (ParseFailed /\ Rejected = <<"SHT35", ",", "temp_offset", "=", "caffee">>) =>
           Contains(fatal, <<"Failed to parse temperature offset '", "caffee", "': ">>)
    /\ (ParseFailed /\ Rejected = <<"SHT35", ",", "humidity_offset", "=", "hum">>) =>
           Contains(fatal, <<"Failed to parse humidity offset '", "hum", "': ">>)

\* The parse stopped at a descriptor with a malformed value and no unknown
\* key, after an earlier descriptor was accepted.
C19_Witness ==
    /\ ParseFailed
    /\ Len(sensors) = 1
    /\ FirstMalformed(Rejected) # 0
    /\ FirstUnknown(Rejected) = 0

\* C20: the parser fails for every descriptor whose first comma-separated
\* field, the model, is empty ("" or ",bus=1"); it never returns a record
\* with an empty model.
C20_EmptyModelRejected ==
    \A j \in 1..Len(sensors) :
        /\ Split(args[j], ",")[1] # EmptyString
        /\ sensors[j].Model # EmptyString

\* --------------------------------------------- claims on the humidity read
\* C21: when the humidity read of a BME280-family sensor reports humidity as
\* not supported, Poll returns success with temperature set and humidity
\* unset, and Collect sends no humidity metric.
C21_UnsupportedHumidityUnset ==
    \A g \in Goroutines :
        (Done(g) /\ ~supported[g]) =>
            /\ ~err[g]
            /\ readings[g].temperature # Nil
            /\ readings[g].humidity = Nil
            /\ \A m \in ch[g] : m[1] \notin {HumidityRH, RawHumidityRH, HumidityGram}

\* Poll of g has finished its temperature read and not begun its humidity read.
BetweenReads(g) == IsBME280(coll[g]) /\ pc[g] = "lock2"

\* C22: a BME280Sensor.Poll does its temperature read and its humidity read
\* in one uninterrupted exclusive section: no raw read of another poll of the
\* same device takes place between the two.
C22_ReadsInOneSection ==
    \A g, h \in Goroutines :
        (g # h /\ coll[g] = coll[h] /\ BetweenReads(g)) => ~InRawRead(h)

\* ------------------------------------------------- claims on the round trip
\* C23: rendering and parsing are inverse on parsed records: for the record r
\* of every accepted descriptor, parseSensorFlags(r.String()) succeeds and
\* returns a record equal to r, so r.String() is a fixed point of
\* parse-then-render.
C23_ParseOfStringIsIdentity ==
    \A j \in 1..Len(printed) :
        LET again == parseSensorFlags(printed[j])
        IN  /\ printed[j] = String(sensors[j])
            /\ ~again.failed
            /\ again.flags = sensors[j]
            /\ String(again.flags) = printed[j]

====
